---- MODULE Spec2Model ----
(***************************************************************************)
(* cli_kanban: the command-line entry point (src/main.go).                 *)
(*                                                                         *)
(* A run of the program is a process that walks through runTUI: it lists   *)
(* the workspaces, deletes one, or opens one and runs the TUI on it.       *)
(* Strings are sequences of one-character strings; a path is a sequence of *)
(* components below the user's home directory; the file system is a        *)
(* function from the paths that exist to their nodes.                      *)
(***************************************************************************)
EXTENDS Naturals, Sequences, FiniteSets, TLC

VARIABLES
    homeOk,   \* os.UserHomeDir() succeeds with a non-empty result
    fs,       \* file system below the home directory: path -> node
    pc,       \* per process: where the run stands
    flags,    \* per process: the values of --workspace, --list, --delete
    ws,       \* per process: local ws of runTUI / deleteWorkspaceDatabase
    dbPath,   \* per process: local dbPath (NoPath before it is computed)
    handle,   \* per process: "none", "open" or "closed": the *db.DB
    opens,    \* per process: number of db.New calls that succeeded
    err,      \* per process: the error the run returned ("" for nil)
    out,      \* per process: the workspace names printed by --list
    msg,      \* per process: the other line printed on stdout, if any
    calls,    \* per process: the storage calls the run has made
    copies    \* number of completed legacy copies (saturates at CopyCap)

vars == <<homeOk, fs, pc, flags, ws, dbPath, handle, opens, err, out, msg, calls, copies>>

----------------------------------------------------------------------------
(* Bounds of the model *)

\* longest --workspace / --delete argument enumerated character by character
MaxArgLen == 1
\* number of processes (runs that may exist at the same time)
NumProcs == 2
\* the counter of legacy copies stops counting here
CopyCap == 2

Procs == 1..NumProcs

----------------------------------------------------------------------------
(* Strings *)

LowerCase == {"a","b","c","d","e","f","g","h","i","j","k","l","m",
              "n","o","p","q","r","s","t","u","v","w","x","y","z"}
Digits == {"0","1","2","3","4","5","6","7","8","9"}

\* byte value of the characters the model uses (sort.Strings compares bytes)
Code(c) ==
    CASE c = "-" -> 45
      [] c = "." -> 46
      [] c = "A" -> 65
      [] c = "_" -> 95
      [] c = "a" -> 97
      [] c = "b" -> 98
      [] c = "c" -> 99
      [] c = "d" -> 100
      [] c = "e" -> 101
      [] c = "f" -> 102
      [] c = "i" -> 105
      [] c = "k" -> 107
      [] c = "l" -> 108
      [] c = "n" -> 110
      [] c = "t" -> 116
      [] c = "u" -> 117
      [] c = "w" -> 119
      [] c = "x" -> 120

\* s < t in byte-wise lexicographic order
RECURSIVE StrLess(_, _)
StrLess(s, t) ==
    IF t = <<>> THEN FALSE
    ELSE IF s = <<>> THEN TRUE
    ELSE IF Code(Head(s)) < Code(Head(t)) THEN TRUE
    ELSE IF Code(Head(s)) > Code(Head(t)) THEN FALSE
    ELSE StrLess(Tail(s), Tail(t))

HasPrefix(s, prefix) ==
    /\ Len(s) >= Len(prefix)
    /\ SubSeq(s, 1, Len(prefix)) = prefix

HasSuffix(s, suffix) ==
    /\ Len(s) >= Len(suffix)
    /\ SubSeq(s, Len(s) - Len(suffix) + 1, Len(s)) = suffix

TrimPrefix(s, prefix) ==
    IF HasPrefix(s, prefix) THEN SubSeq(s, Len(prefix) + 1, Len(s)) ELSE s

TrimSuffix(s, suffix) ==
    IF HasSuffix(s, suffix) THEN SubSeq(s, 1, Len(s) - Len(suffix)) ELSE s

Min(S) == CHOOSE x \in S : \A y \in S : x = y \/ StrLess(x, y)

\* sort.Strings on a list without duplicates (directory entries are unique)
RECURSIVE SortStrings(_)
SortStrings(S) ==
    IF S = {} THEN <<>>
    ELSE LET m == Min(S) IN <<m>> \o SortStrings(S \ {m})

----------------------------------------------------------------------------
(* Program constants *)

defaultWorkspace == <<"d","e","f","a","u","l","t">>
dataDirName == <<".","c","l","i","_","k","a","n","b","a","n">>
dbFilePrefix == <<"c","l","i","_","k","a","n","b","a","n","_","_">>
dbFileSuffix == <<".","d","b">>
legacyDBName == <<".","c","l","i","_","k","a","n","b","a","n",".","d","b">>

NameMinLen == 1
NameMaxLen == 32

\* the character class [a-z0-9_-]
NameChars == LowerCase \cup Digits \cup {"_", "-"}

\* mutant: the pattern without its upper length limit, ^[a-z0-9_-]{1,}$
workspaceNameReNoMax(s) ==
    /\ Len(s) >= NameMinLen
    /\ \A i \in 1..Len(s) : s[i] \in NameChars

\* workspaceNameRe.MatchString(s) for ^[a-z0-9_-]{1,32}$
workspaceNameRe(s) ==
    /\ Len(s) >= NameMinLen
    /\ Len(s) <= NameMaxLen
    /\ \A i \in 1..Len(s) : s[i] \in NameChars

----------------------------------------------------------------------------
(* Paths and the file system *)

NoPath == <<>>

\* filepath.Join(dir, elem) for an element without a separator
Join(dir, elem) == Append(dir, elem)

\* cliKanbanDataDir() and legacyDefaultDBPath() when the home directory is known
cliKanbanDataDir == <<dataDirName>>
legacyDefaultDBPath == <<legacyDBName>>

\* mutant: the file name without the workspace name
DbFileNameNoWs(w) == dbFilePrefix \o dbFileSuffix

\* dbFilePrefix+ws+".db"
DbFileName(w) == dbFilePrefix \o w \o dbFileSuffix

\* mutant: every workspace on the default workspace's file
DbPathDefault(w) == Join(cliKanbanDataDir, DbFileName(defaultWorkspace))

\* filepath.Join(dataDir, dbFilePrefix+ws+".db")
DbPath(w) == Join(cliKanbanDataDir, DbFileName(w))

File(content) == [kind |-> "file", content |-> content]
Dir == [kind |-> "dir", content |-> "-"]

Exists(f, path) == path \in DOMAIN f
IsDirAt(f, path) == Exists(f, path) /\ f[path].kind = "dir"
IsFileAt(f, path) == Exists(f, path) /\ f[path].kind = "file"

Children(f, dir) ==
    {p \in DOMAIN f : Len(p) = Len(dir) + 1 /\ SubSeq(p, 1, Len(dir)) = dir}

Put(f, path, node) ==
    [p \in DOMAIN f \cup {path} |-> IF p = path THEN node ELSE f[p]]

Drop(f, path) == [p \in DOMAIN f \ {path} |-> f[p]]

\* fileExists(path): os.Stat succeeds
fileExists(f, path) == Exists(f, path)

\* os.Remove(path): "ok", "notexist" or "other"
RemoveResult(f, path) ==
    IF ~Exists(f, path) THEN "notexist"
    ELSE IF IsDirAt(f, path) /\ Children(f, path) # {} THEN "other"
    ELSE "ok"

\* mutant: removes the siblings of path with it
RemoveAll(f, path) ==
    IF RemoveResult(f, path) = "ok"
    THEN [p \in {q \in DOMAIN f : Len(q) < Len(path)} |-> f[p]]
    ELSE f

Remove(f, path) == IF RemoveResult(f, path) = "ok" THEN Drop(f, path) ELSE f

\* os.MkdirAll(path) of a directory directly below the home directory
MkdirAllOk(f, path) == ~Exists(f, path) \/ IsDirAt(f, path)
MkdirAll(f, path) ==
    IF Exists(f, path) THEN f ELSE Put(f, path, Dir)

----------------------------------------------------------------------------
(* Inputs and initial states *)

RECURSIVE SeqsUpTo(_, _)
SeqsUpTo(A, n) ==
    IF n = 0 THEN {<<>>}
    ELSE LET shorter == SeqsUpTo(A, n - 1)
         IN shorter \cup {Append(s, c) : s \in shorter, c \in A}

Rep(c, n) == [i \in 1..n |-> c]

InputAlphabet == {"a", "A"}

\* the values given to --workspace and --delete: every short string over the
\* input alphabet, the default name, and the two strings around the length limit
ArgNames ==
    SeqsUpTo(InputAlphabet, MaxArgLen)
        \cup {defaultWorkspace, Rep("a", NameMaxLen), Rep("a", NameMaxLen + 1)}

\* the names used by runs that overlap in time
ConcNames == {defaultWorkspace, <<"a">>}

\* what may lie in the data directory before the program first runs
ForeignEntries ==
    LET d == cliKanbanDataDir
        a == Join(d, DbFileName(<<"a">>))
    IN { <<>>,
         Join(d, DbFileName(<<>>)) :> File("foreign"),
         Join(d, DbFileName(<<"A">>)) :> File("foreign"),
         Join(d, DbFileName(<<"a">>) \o <<"-","w">>) :> File("foreign"),
         Join(d, <<"a">> \o dbFileSuffix) :> File("foreign"),
         a :> Dir,
         (a :> Dir) @@ (Join(a, <<"x">>) :> File("foreign")) }

DataDirStates ==
    { <<>>, cliKanbanDataDir :> File("foreign") }
        \cup { (cliKanbanDataDir :> Dir) @@ e : e \in ForeignEntries }

LegacyStates ==
    { <<>>, legacyDefaultDBPath :> File("legacy"), legacyDefaultDBPath :> Dir }

InitFS == { l @@ d : l \in LegacyStates, d \in DataDirStates }

ConcInitFS ==
    { l @@ d : l \in LegacyStates, d \in { <<>>, cliKanbanDataDir :> Dir } }

InitProcs ==
    /\ pc = [p \in Procs |-> "idle"]
    /\ flags = [p \in Procs |-> [workspace |-> <<>>, list |-> FALSE, delete |-> <<>>]]
    /\ ws = [p \in Procs |-> <<>>]
    /\ dbPath = [p \in Procs |-> NoPath]
    /\ handle = [p \in Procs |-> "none"]
    /\ opens = [p \in Procs |-> 0]
    /\ err = [p \in Procs |-> ""]
    /\ out = [p \in Procs |-> <<>>]
    /\ msg = [p \in Procs |-> ""]
    /\ calls = [p \in Procs |-> {}]
    /\ copies = 0

Init ==
    /\ homeOk \in BOOLEAN
    /\ fs \in (IF homeOk THEN InitFS ELSE {<<>>})
    /\ InitProcs

ConcInit ==
    /\ homeOk = TRUE
    /\ fs \in ConcInitFS
    /\ InitProcs

----------------------------------------------------------------------------
(* The run *)

\* the run returns e (and main prints it and exits)
Return(p, e) ==
    /\ pc' = [pc EXCEPT ![p] = "done"]
    /\ err' = [err EXCEPT ![p] = e]

Goto(p, l) ==
    /\ pc' = [pc EXCEPT ![p] = l]
    /\ err' = err

Called(p, c) == calls' = [calls EXCEPT ![p] = @ \cup c]

\* mutant: runTUI without its first test, so that --list wins over --delete
RunTUINoExclusion(p, w, l, d) ==
    /\ pc[p] = "idle"
    /\ flags' = [flags EXCEPT ![p] = [workspace |-> w, list |-> l, delete |-> d]]
    /\ UNCHANGED <<homeOk, fs, dbPath, handle, opens, out, msg, calls, copies>>
    /\ IF l THEN
            Goto(p, "list") /\ ws' = ws
       ELSE IF d # <<>> THEN
            Goto(p, "delete") /\ ws' = ws
       ELSE LET name == IF w = <<>> THEN defaultWorkspace ELSE w IN
            /\ ws' = [ws EXCEPT ![p] = name]
            /\ IF ~workspaceNameRe(name) THEN Return(p, "invalid")
               ELSE IF ~homeOk THEN Return(p, "home")
               ELSE Goto(p, "mkdir")

\* main and the head of runTUI, up to the first storage call
RunTUI(p, w, l, d) ==
    /\ pc[p] = "idle"
    /\ flags' = [flags EXCEPT ![p] = [workspace |-> w, list |-> l, delete |-> d]]
    /\ UNCHANGED <<homeOk, fs, dbPath, handle, opens, out, msg, calls, copies>>
    /\ IF l /\ d # <<>> THEN
            Return(p, "together") /\ ws' = ws
       ELSE IF l THEN
            Goto(p, "list") /\ ws' = ws
       ELSE IF d # <<>> THEN
            Goto(p, "delete") /\ ws' = ws
       ELSE LET name == IF w = <<>> THEN defaultWorkspace ELSE w IN
            /\ ws' = [ws EXCEPT ![p] = name]
            /\ IF ~workspaceNameRe(name) THEN Return(p, "invalid")
               ELSE IF ~homeOk THEN Return(p, "home")
               ELSE Goto(p, "mkdir")

\* os.MkdirAll(dataDir, 0o700)
MkdirDataDir(p) ==
    /\ pc[p] = "mkdir"
    /\ Called(p, {"MkdirAll"})
    /\ UNCHANGED <<homeOk, flags, ws, dbPath, handle, opens, out, msg, copies>>
    /\ IF MkdirAllOk(fs, cliKanbanDataDir) THEN
            /\ fs' = MkdirAll(fs, cliKanbanDataDir)
            /\ Goto(p, IF ws[p] = defaultWorkspace THEN "migrate" ELSE "dbnew")
       ELSE
            /\ fs' = fs
            /\ Return(p, "mkdir")

newPath == Join(cliKanbanDataDir, dbFilePrefix \o defaultWorkspace \o dbFileSuffix)

\* mutant: migrateLegacyDefaultDB without the test of newPath
MigrateWithoutNewPathTest(p) ==
    /\ pc[p] = "migrate"
    /\ Called(p, {"Stat"})
    /\ UNCHANGED <<homeOk, fs, flags, ws, dbPath, handle, opens, out, msg, copies>>
    /\ IF ~fileExists(fs, legacyDefaultDBPath) THEN Goto(p, "dbnew")
       ELSE Goto(p, "copy")

\* migrateLegacyDefaultDB up to the call of copyFile
MigrateLegacyDefaultDB(p) ==
    /\ pc[p] = "migrate"
    /\ Called(p, {"Stat"})
    /\ UNCHANGED <<homeOk, fs, flags, ws, dbPath, handle, opens, out, msg, copies>>
    /\ IF fileExists(fs, newPath) THEN Goto(p, "dbnew")
       ELSE IF ~fileExists(fs, legacyDefaultDBPath) THEN Goto(p, "dbnew")
       ELSE Goto(p, "copy")

\* copyFile: os.Open(src) and os.OpenFile(dst, O_WRONLY|O_CREATE|O_EXCL)
CopyFileCreate(p) ==
    /\ pc[p] = "copy"
    /\ Called(p, {"Open", "OpenFile"})
    /\ UNCHANGED <<homeOk, flags, ws, dbPath, handle, opens, out, msg, copies>>
    /\ IF ~Exists(fs, legacyDefaultDBPath) THEN
            fs' = fs /\ Return(p, "open")
       ELSE IF Exists(fs, newPath) THEN
            fs' = fs /\ Return(p, "create")
       ELSE
            fs' = Put(fs, newPath, File("empty")) /\ Goto(p, "iocopy")

\* copyFile: io.Copy, Sync and Close, with os.Remove(dst) when one of them fails.
\* Reading a directory fails; a file re-created at dst in the meantime is taken
\* for the file the copy holds open.
CopyFileData(p) ==
    /\ pc[p] = "iocopy"
    /\ UNCHANGED <<homeOk, flags, ws, dbPath, handle, opens, out, msg>>
    /\ IF IsFileAt(fs, legacyDefaultDBPath) THEN
            /\ Called(p, {"Copy"})
            /\ fs' = IF IsFileAt(fs, newPath)
                     THEN Put(fs, newPath, File(fs[legacyDefaultDBPath].content))
                     ELSE fs
            /\ copies' = IF copies < CopyCap THEN copies + 1 ELSE copies
            /\ Goto(p, "dbnew")
       ELSE
            /\ Called(p, {"Copy", "Remove"})
            /\ fs' = Remove(fs, newPath)
            /\ copies' = copies
            /\ Return(p, "copy")

\* db.New(dbPath): opens the database file, creating it when it is missing
DbNew(p) ==
    /\ pc[p] = "dbnew"
    /\ Called(p, {"db.New"})
    /\ dbPath' = [dbPath EXCEPT ![p] = DbPath(ws[p])]
    /\ UNCHANGED <<homeOk, flags, ws, out, msg, copies>>
    /\ LET path == DbPath(ws[p]) IN
       IF IsDirAt(fs, path) \/ ~IsDirAt(fs, cliKanbanDataDir) THEN
            /\ fs' = fs
            /\ UNCHANGED <<handle, opens>>
            /\ Return(p, "dbinit")
       ELSE
            /\ fs' = IF ~Exists(fs, path) \/ fs[path].content = "empty"
                     THEN Put(fs, path, File("db"))
                     ELSE fs
            /\ handle' = [handle EXCEPT ![p] = "open"]
            /\ opens' = [opens EXCEPT ![p] = @ + 1]
            /\ Goto(p, "tui")

\* the TUI changes the board: a write through the open database
TuiWrite(p) ==
    /\ pc[p] = "tui"
    /\ IsFileAt(fs, dbPath[p])
    /\ fs[dbPath[p]].content # "db"
    /\ fs' = Put(fs, dbPath[p], File("db"))
    /\ Called(p, {"tea.Run"})
    /\ UNCHANGED <<homeOk, pc, flags, ws, dbPath, handle, opens, err, out, msg, copies>>

\* mutant: Close() called at the end of runTUI instead of deferred
TuiQuitCloseAtEnd(p, ok) ==
    /\ pc[p] = "tui"
    /\ Called(p, IF ok THEN {"tea.Run", "db.Close"} ELSE {"tea.Run"})
    /\ handle' = [handle EXCEPT ![p] = IF ok THEN "closed" ELSE @]
    /\ Return(p, IF ok THEN "" ELSE "tui")
    /\ UNCHANGED <<homeOk, fs, flags, ws, dbPath, opens, out, msg, copies>>

\* p.Run() returns, with or without an error; the deferred database.Close() runs
TuiQuit(p, ok) ==
    /\ pc[p] = "tui"
    /\ Called(p, {"tea.Run", "db.Close"})
    /\ handle' = [handle EXCEPT ![p] = "closed"]
    /\ Return(p, IF ok THEN "" ELSE "tui")
    /\ UNCHANGED <<homeOk, fs, flags, ws, dbPath, opens, out, msg, copies>>

\* deleteWorkspaceDatabase(deleteWorkspace)
DeleteWorkspaceDatabase(p) ==
    /\ pc[p] = "delete"
    /\ ws' = [ws EXCEPT ![p] = flags[p].delete]
    /\ UNCHANGED <<homeOk, flags, handle, opens, out, copies>>
    /\ LET name == flags[p].delete
           path == DbPath(name)
           r == RemoveResult(fs, path)
       IN
       IF ~workspaceNameRe(name) THEN
            /\ Return(p, "invalid")
            /\ UNCHANGED <<fs, dbPath, msg, calls>>
       ELSE IF ~homeOk THEN
            /\ Return(p, "home")
            /\ UNCHANGED <<fs, dbPath, msg, calls>>
       ELSE
            /\ dbPath' = [dbPath EXCEPT ![p] = path]
            /\ Called(p, {"Remove"})
            /\ fs' = Remove(fs, path)
            /\ msg' = [msg EXCEPT ![p] = IF r = "ok" THEN "Deleted workspace" ELSE @]
            /\ Return(p, CASE r = "ok" -> ""
                           [] r = "notexist" -> "notfound"
                           [] OTHER -> "delete")

\* the names listWorkspaceDatabases collects from the data directory
ListedNames(f) ==
    { n \in { TrimSuffix(TrimPrefix(e[Len(e)], dbFilePrefix), dbFileSuffix) :
                e \in { c \in Children(f, cliKanbanDataDir) :
                          /\ ~IsDirAt(f, c)
                          /\ HasPrefix(c[Len(c)], dbFilePrefix)
                          /\ HasSuffix(c[Len(c)], dbFileSuffix) } } :
        n # <<>> }

\* listWorkspaceDatabases()
ListWorkspaceDatabases(p) ==
    /\ pc[p] = "list"
    /\ UNCHANGED <<homeOk, fs, flags, ws, dbPath, handle, opens, copies>>
    /\ IF ~homeOk THEN
            /\ Return(p, "home")
            /\ UNCHANGED <<out, msg, calls>>
       ELSE
            /\ Called(p, {"ReadDir"})
            /\ IF ~Exists(fs, cliKanbanDataDir) THEN
                    /\ msg' = [msg EXCEPT ![p] = "No workspaces found."]
                    /\ out' = out
                    /\ Return(p, "")
               ELSE IF ~IsDirAt(fs, cliKanbanDataDir) THEN
                    /\ UNCHANGED <<out, msg>>
                    /\ Return(p, "readdir")
               ELSE LET workspaces == SortStrings(ListedNames(fs)) IN
                    /\ msg' = [msg EXCEPT ![p] =
                                 IF Len(workspaces) = 0 THEN "No workspaces found." ELSE @]
                    /\ out' = [out EXCEPT ![p] = workspaces]
                    /\ Return(p, "")

\* the process has exited; the slot is free for the next run
Exit(p) ==
    /\ pc[p] = "done"
    /\ pc' = [pc EXCEPT ![p] = "idle"]
    /\ flags' = [flags EXCEPT ![p] = [workspace |-> <<>>, list |-> FALSE, delete |-> <<>>]]
    /\ ws' = [ws EXCEPT ![p] = <<>>]
    /\ dbPath' = [dbPath EXCEPT ![p] = NoPath]
    /\ handle' = [handle EXCEPT ![p] = "none"]
    /\ opens' = [opens EXCEPT ![p] = 0]
    /\ err' = [err EXCEPT ![p] = ""]
    /\ out' = [out EXCEPT ![p] = <<>>]
    /\ msg' = [msg EXCEPT ![p] = ""]
    /\ calls' = [calls EXCEPT ![p] = {}]
    /\ UNCHANGED <<homeOk, fs, copies>>

\* a run starts while no other run is in progress, with any arguments
Start(p) ==
    /\ \A q \in Procs : pc[q] = "idle"
    /\ \E w \in ArgNames, l \in BOOLEAN, d \in ArgNames : RunTUI(p, w, l, d)

\* a run starts while others may be in progress
StartConc(p) ==
    \E w \in ConcNames, l \in BOOLEAN, d \in ConcNames \cup {<<>>} : RunTUI(p, w, l, d)

Step(p) ==
    \/ MkdirDataDir(p)
    \/ MigrateLegacyDefaultDB(p)
    \/ CopyFileCreate(p)
    \/ CopyFileData(p)
    \/ DbNew(p)
    \/ TuiWrite(p)
    \/ \E ok \in BOOLEAN : TuiQuit(p, ok)
    \/ DeleteWorkspaceDatabase(p)
    \/ ListWorkspaceDatabases(p)
    \/ Exit(p)

Next == \E p \in Procs : Start(p) \/ Step(p)

ConcNext == \E p \in Procs : StartConc(p) \/ Step(p)

\* a run that opens a workspace starts while no other run is in progress
StartTui(p) ==
    /\ \A q \in Procs : pc[q] = "idle"
    /\ \E w \in ArgNames : RunTUI(p, w, FALSE, <<>>)

TuiStep(p) ==
    \/ MkdirDataDir(p)
    \/ MigrateLegacyDefaultDB(p)
    \/ CopyFileCreate(p)
    \/ CopyFileData(p)
    \/ DbNew(p)
    \/ TuiWrite(p)
    \/ \E ok \in BOOLEAN : TuiQuit(p, ok)
    \/ Exit(p)

StartupNext == \E p \in Procs : StartTui(p) \/ TuiStep(p)

\* runs one after the other, with every argument
Spec == Init /\ [][Next]_vars

\* runs that overlap in time
ConcSpec == ConcInit /\ [][ConcNext]_vars

\* start-ups of the TUI one after the other, and nothing else
StartupSpec == Init /\ [][StartupNext]_vars

----------------------------------------------------------------------------
(* What the claims speak of *)

\* s matches ^[a-z0-9_-]{1,32}$
MatchesPattern(s) ==
    /\ Len(s) \in NameMinLen..NameMaxLen
    /\ {s[i] : i \in 1..Len(s)} \subseteq NameChars

Started(p) == pc[p] # "idle"
IsList(p) == flags[p].list /\ flags[p].delete = <<>>
IsDelete(p) == ~flags[p].list /\ flags[p].delete # <<>>
IsBoth(p) == flags[p].list /\ flags[p].delete # <<>>
IsTui(p) == ~flags[p].list /\ flags[p].delete = <<>>

\* the paths whose node differs between f and g
Changed(f, g) ==
    {path \in DOMAIN f \cup DOMAIN g :
        ~(path \in DOMAIN f /\ path \in DOMAIN g /\ f[path] = g[path])}

\* the valid names other than the one the run of p opens or deletes
OtherNames(p) ==
    {n \in ArgNames :
        /\ MatchesPattern(n)
        /\ ~(IsTui(p) /\ n = ws[p])
        /\ ~(IsDelete(p) /\ n = flags[p].delete)}

MigrationCalls == {"Stat", "Open", "OpenFile", "Copy"}

----------------------------------------------------------------------------
(* C1 *)

C1_Rejected(p) ==
    /\ calls[p] = {}
    /\ pc[p] \in {"delete", "done"}
    /\ pc[p] = "done" => err[p] = "invalid"

\* C1, as claimed: a run that opens or deletes a workspace whose given name does
\* not match the pattern, the empty name included, ends with the error for an
\* invalid name and has made no storage call.
C1_Original ==
    \A p \in Procs : Started(p) =>
        /\ (IsTui(p) /\ ~MatchesPattern(flags[p].workspace)) => C1_Rejected(p)
        /\ (IsDelete(p) /\ ~MatchesPattern(flags[p].delete)) => C1_Rejected(p)

C1_Inv ==
    \A p \in Procs : Started(p) =>
        /\ (IsTui(p) /\ flags[p].workspace # <<>> /\ ~MatchesPattern(flags[p].workspace))
              => C1_Rejected(p)
        /\ (IsDelete(p) /\ ~MatchesPattern(flags[p].delete)) => C1_Rejected(p)
        /\ (IsTui(p) /\ flags[p].workspace = <<>>) => ws[p] = defaultWorkspace

C1_InvalidRun(pcp, fl) ==
    /\ pcp # "idle"
    /\ \/ ~fl.list /\ fl.delete = <<>> /\ fl.workspace # <<>> /\ ~MatchesPattern(fl.workspace)
       \/ ~fl.list /\ fl.delete # <<>> /\ ~MatchesPattern(fl.delete)

\* C1, amended: a run that opens or deletes a workspace whose given name is not
\* empty and does not match the pattern ends with the error for an invalid name,
\* has made no storage call and leaves the file system as it was; an empty
\* --workspace selects the default workspace.
C1_InvalidNameRejected ==
    /\ []C1_Inv
    /\ [][\A p \in Procs : C1_InvalidRun(pc'[p], flags'[p]) => fs' = fs]_vars

\* a run given a name with an upper-case letter has been rejected
C1_Witness ==
    \E p \in Procs :
        /\ pc[p] = "done" /\ IsTui(p) /\ err[p] = "invalid"
        /\ "A" \in {flags[p].workspace[i] : i \in 1..Len(flags[p].workspace)}

----------------------------------------------------------------------------
(* C2 *)

C2_Inv ==
    \A p \in Procs :
        /\ dbPath[p] # NoPath => \A n \in OtherNames(p) : DbPath(n) # dbPath[p]
        /\ calls[p] \cap MigrationCalls # {} => IsTui(p) /\ ws[p] = defaultWorkspace

C2_Frame ==
    \A p \in Procs : Started(p) =>
        \A n \in OtherNames(p) : DbPath(n) \notin Changed(fs, fs')

\* C2: the database path of a run differs from the path of every other valid
\* name, a run reads the legacy file only when it opens the default workspace,
\* and no step of a run creates, changes or removes the database file of a
\* workspace other than its own.
C2_WorkspacesIsolated == []C2_Inv /\ [][C2_Frame]_vars

\* a workspace has been deleted while the database of another one exists
C2_Witness ==
    \E p \in Procs :
        /\ pc[p] = "done" /\ IsDelete(p) /\ err[p] = ""
        /\ \E n \in OtherNames(p) : IsFileAt(fs, DbPath(n))

----------------------------------------------------------------------------
(* C3 *)

C3_SelectedName(p) ==
    IF flags[p].workspace = <<>> THEN defaultWorkspace ELSE flags[p].workspace

\* C3: a run opens at most one database, the one at the path of the workspace
\* selected at start-up, holds it open while the TUI runs, and has closed it
\* when it returns, also when the TUI ended with an error.
C3_OneDatabasePerSession ==
    \A p \in Procs :
        /\ opens[p] <= 1
        /\ handle[p] # "none" =>
              /\ Started(p) /\ IsTui(p) /\ opens[p] = 1
              /\ dbPath[p] = <<dataDirName, dbFilePrefix \o C3_SelectedName(p) \o dbFileSuffix>>
        /\ pc[p] = "tui" => handle[p] = "open"
        /\ pc[p] = "done" =>
              /\ handle[p] # "open"
              /\ opens[p] = 1 => handle[p] = "closed" /\ "db.Close" \in calls[p]

\* a run whose TUI ended with an error has returned with its database closed
C3_Witness ==
    \E p \in Procs : pc[p] = "done" /\ err[p] = "tui" /\ handle[p] = "closed"

----------------------------------------------------------------------------
(* C4 *)

\* C4, as claimed: two runs started with the same workspace name never hold
\* that workspace's database open at the same time.
C4_Original ==
    \A p, q \in Procs :
        (p # q /\ Started(p) /\ Started(q) /\ ws[p] = ws[q])
            => ~(handle[p] = "open" /\ handle[q] = "open")

\* C4, amended: two runs hold the same database file open at the same time
\* only when they were started with the same workspace name.
C4_SharedOnlyBySameName ==
    \A p, q \in Procs :
        (handle[p] = "open" /\ handle[q] = "open" /\ dbPath[p] = dbPath[q])
            => C3_SelectedName(p) = C3_SelectedName(q)

\* two runs of the same workspace hold its database open together
C4_Witness ==
    \E p, q \in Procs :
        /\ p # q /\ ws[p] = ws[q] /\ dbPath[p] = dbPath[q]
        /\ handle[p] = "open" /\ handle[q] = "open"

----------------------------------------------------------------------------
(* C5 *)

C5_Path(w) == <<dataDirName, dbFilePrefix \o w \o dbFileSuffix>>

C5_Delete(p) ==
    LET w == flags[p].delete
        path == C5_Path(w)
    IN  /\ IsFileAt(fs, path) =>
              /\ fs' = Drop(fs, path)
              /\ err'[p] = ""
              /\ w \notin ListedNames(fs')
              /\ RemoveResult(fs', DbPath(w)) = "notexist"
        /\ ~Exists(fs, path) =>
              /\ fs' = fs
              /\ err'[p] = "notfound"

----------------------------------------------------------------------------
(* C6 *)

C6_Inv ==
    \A p \in Procs : (Started(p) /\ ~IsTui(p)) =>
        /\ pc[p] \in {"list", "delete", "done"}
        /\ calls[p] \subseteq {"ReadDir", "Remove"}
        /\ handle[p] = "none" /\ opens[p] = 0
        /\ IsList(p) => calls[p] \subseteq {"ReadDir"}
        /\ IsDelete(p) => calls[p] \subseteq {"Remove"}
        /\ IsBoth(p) =>
              /\ pc[p] = "done" /\ err[p] = "together"
              /\ calls[p] = {} /\ out[p] = <<>> /\ msg[p] = ""

C6_Act ==
    \A p \in Procs : (Started(p) /\ ~IsTui(p)) =>
        /\ Exists(fs', cliKanbanDataDir) <=> Exists(fs, cliKanbanDataDir)
        /\ IsBoth(p) => fs' = fs

\* C6: a run with --list or --delete set, whatever --workspace is, makes no
\* storage call but the one ReadDir or Remove of its mode, opens no database,
\* never reaches the TUI and never creates the data directory; with both set
\* it returns an error at once, printing and changing nothing.
C6_ListAndDeleteOnlyDoTheirJob == []C6_Inv /\ [][C6_Act]_vars

\* --list with --delete W has failed while the database of W is still there
C6_Witness ==
    \E p \in Procs :
        /\ pc[p] = "done" /\ IsBoth(p) /\ err[p] = "together"
        /\ MatchesPattern(flags[p].delete)
        /\ IsFileAt(fs, DbPath(flags[p].delete))

----------------------------------------------------------------------------
(* C7 *)

\* the ws of the claim: the non-directory entries named 'cli_kanban__'+ws+'.db'
C7_Expected(f) ==
    {n \in {SubSeq(e[Len(e)], Len(dbFilePrefix) + 1, Len(e[Len(e)]) - Len(dbFileSuffix)) :
              e \in {c \in Children(f, <<dataDirName>>) : f[c].kind # "dir"}} :
        /\ n # <<>>
        /\ <<dataDirName, dbFilePrefix \o n \o dbFileSuffix>> \in DOMAIN f}

C7_Listing(p) ==
    /\ err[p] = ""
    /\ {out[p][i] : i \in 1..Len(out[p])} = C7_Expected(fs)
    /\ Len(out[p]) = Cardinality(C7_Expected(fs))
    /\ \A i, j \in 1..Len(out[p]) : i < j => StrLess(out[p][i], out[p][j])
    /\ msg[p] = IF C7_Expected(fs) = {} THEN "No workspaces found." ELSE ""

C7_ListRun(p) ==
    /\ pc[p] = "done" /\ IsList(p) /\ homeOk
    /\ ~Exists(fs, <<dataDirName>>) \/ IsDirAt(fs, <<dataDirName>>)

\* C7, as claimed: --list prints, in ascending order, exactly the ws of the
\* non-directory entries named 'cli_kanban__'+ws+'.db' with ws not empty, or
\* 'No workspaces found.' when there is none, and every name it prints matches
\* the pattern of workspace names.
C7_Original ==
    \A p \in Procs : C7_ListRun(p) =>
        /\ C7_Listing(p)
        /\ \A i \in 1..Len(out[p]) : MatchesPattern(out[p][i])

\* the part of C7 that the program keeps: the lines printed and their order
C7_ListingOnly == \A p \in Procs : C7_ListRun(p) => C7_Listing(p)

----------------------------------------------------------------------------
(* C8 *)

C8_Inv ==
    /\ copies <= 1
    /\ \A p \in Procs : calls[p] \cap MigrationCalls # {} => ws[p] = defaultWorkspace

C8_Act ==
    LET old == <<legacyDBName>>
        new == <<dataDirName, dbFilePrefix \o defaultWorkspace \o dbFileSuffix>>
    IN  /\ Exists(fs', old) <=> Exists(fs, old)
        /\ Exists(fs, old) => fs'[old] = fs[old]
        /\ \A p \in Procs :
              /\ (pc[p] = "migrate" /\ Exists(fs, new)) =>
                    fs' = fs /\ pc'[p] = "dbnew" /\ copies' = copies
              /\ (pc[p] = "migrate" /\ ~Exists(fs, old)) =>
                    fs' = fs /\ pc'[p] = "dbnew" /\ copies' = copies
              /\ (pc[p] \in {"mkdir", "migrate", "copy", "iocopy"}
                    /\ Exists(fs, new) /\ fs[new].content # "empty") =>
                    Exists(fs', new) /\ fs'[new] = fs[new]

====
